---- MODULE Spec2Model ----
(***************************************************************************)
(* A model of the configuration aggregator of go-config: the `config`      *)
(* type (the per-source watch loops, sync, reload, Get, Bytes, Load,       *)
(* Watch, Close) and its `watcher` (Next, Stop).                           *)
(*                                                                         *)
(* Go indexes from 0 and TLA+ sequences from 1: a Go index i of c.sets or  *)
(* c.sources is position i + 1 of the sequences sets and sources here.     *)
(***************************************************************************)
EXTENDS Integers, Sequences, FiniteSets, TLC

\* ------------------------------------------------------------------ bounds
\* sources handed to newConfig (options.Source)
NumInit == 2
\* sources added later, one per Load call
MaxLoads == 1
\* tasks that call Get, Bytes and Watch
NumCallers == 1
\* Watch registrations over the life of the aggregator
MaxWatchers == 1
\* content versions a source can publish (version 0 is undecodable data)
MaxVer == 2
\* stream deliveries over all sources
MaxDeliveries == 2
\* tasks that call Close() at the same time
NumClosers == 2
\* tasks that call Stop() on one watcher at the same time
NumStoppers == 2

NumSources == NumInit + MaxLoads
Loops == 1..NumSources
Callers == (NumSources + 1)..(NumSources + NumCallers)
Loader == NumSources + NumCallers + 1
Tasks == 1..Loader
WatcherIds == 0..(MaxWatchers - 1)
Closers == 1..NumClosers
Stoppers == 1..NumStoppers

\* ------------------------------------------------------------------- data
Keys == {"a", "b", "c", "d"}
\* the paths callers ask for
Paths == {"b", "d"}

\* the keys the documents of source s define
KeysOf(s) ==
  IF s > NumInit THEN {"d"}
  ELSE IF s % 2 = 1 THEN {"a", "b"} ELSE {"b", "c"}

\* the value source s gives its keys in version v: it names source and version
ValOf(s, v) == 10 * s + v

\* a nil *source.ChangeSet
Nil == [src |-> 0, ver |-> 0]
\* the ChangeSet source s produces for version v; version 0 has Data the
\* reader cannot decode
ChangeSet(s, v) == [src |-> s, ver |-> v]
Malformed(ch) == ch # Nil /\ ch.ver = 0

\* the decoded document of a well-formed ChangeSet: key -> value, 0 = absent
DataOf(ch) == [k \in Keys |-> IF k \in KeysOf(ch.src) THEN ValOf(ch.src, ch.ver) ELSE 0]

\* a nil reader.Values / a nil merged set
NoDoc == [k \in Keys |-> -1]
\* the document {}
EmptyDoc == [k \in Keys |-> 0]
\* the empty Value of newValue()
NoValue == 0
\* an empty slot of a watcher's updates channel
NoUpdate == -1

\* Reader.Parse(changes...): nil ChangeSets are skipped, one undecodable
\* ChangeSet fails the whole merge, and for a key in several ChangeSets the one
\* latest in the sequence wins.
Present(ss, k) == {i \in 1..Len(ss) : ss[i] # Nil /\ k \in KeysOf(ss[i].src)}
Max(S) == CHOOSE x \in S : \A y \in S : y <= x
Merge(ss) ==
  [k \in Keys |->
     IF Present(ss, k) = {} THEN 0 ELSE DataOf(ss[Max(Present(ss, k))])[k]]
Parse(ss) ==
  [err  |-> \E i \in 1..Len(ss) : Malformed(ss[i]),
   data |-> Merge(ss)]

\* Reader.Values(set): the Value tree of a merged set, nil (with an error) for
\* a nil set and when the reader (ok) cannot build it
Values(doc, ok) == IF ok /\ doc # NoDoc THEN doc ELSE NoDoc

\* Values.Get(path...)
Lookup(doc, path) == doc[path]

\* -------------------------------------------------------------------- state
VARIABLES
  sources,   \* c.sources
  sets,      \* c.sets
  set,       \* c.set (its decoded Data), NoDoc when nil
  vals,      \* c.vals, NoDoc when nil
  lock,      \* the task holding c's write lock, 0 when free
  exit,      \* whether c.exit is closed
  idx,       \* c.idx
  watchers,  \* the keys of c.watchers
  wt,        \* the watcher objects, by id
  pc,        \* where each task is
  upd,       \* update(): the watchers of the snapshot not yet sent to
  lidx,      \* watch(idx, s): the idx of the loop of each source
  cs,        \* the last ChangeSet obtained from each source (watch's cs, Load's set)
  call,      \* the operation a caller is in, and what its last call returned
  rdok,      \* whether Values of the configured Reader (opts.Reader) succeeds
  ndeliv,    \* stream deliveries so far
  crashed,   \* the process panicked
  closing,   \* the tasks inside Close() that found c.exit open and have not closed it yet
  stopping   \* per watcher, the tasks inside Stop() that found w.exit open, likewise

vars == <<sources, sets, set, vals, lock, exit, idx, watchers, wt, pc, upd,
          lidx, cs, call, rdok, ndeliv, crashed, closing, stopping>>

\* a watcher: path, value, updates and exit are its fields; out is where its
\* consumer is ("none", in Next as "waiting" or, when called after Stop,
\* "late", or back from Next with "value" or "stopped"), and seen is the value
\* the consumer was handed last (by Watch as the baseline, then by Next)
NoWatcher == [path |-> "b", value |-> NoValue, updates |-> NoUpdate, exit |-> FALSE,
              out |-> "none", seen |-> NoValue]
NoCall == [op |-> "Get", path |-> "b", ret |-> NoUpdate, bytes |-> [k \in Keys |-> -3]]

Init ==
  /\ sources = [i \in 1..NumInit |-> i]
  /\ sets = <<>>
  /\ set = NoDoc
  /\ vals = NoDoc
  /\ lock = 0
  /\ exit = FALSE
  /\ idx = 0
  /\ watchers = {}
  /\ wt = [i \in WatcherIds |-> NoWatcher]
  /\ pc = [t \in Tasks |->
            IF t \in Loops THEN (IF t <= NumInit THEN "start" ELSE "off") ELSE "idle"]
  /\ upd = [t \in Tasks |-> {}]
  /\ lidx = [l \in Loops |-> l - 1]
  /\ cs = [l \in Loops |-> Nil]
  /\ call = [c \in Callers |-> NoCall]
  /\ rdok \in BOOLEAN
  /\ ndeliv = 0
  /\ crashed = FALSE
  /\ closing = {}
  /\ stopping = [i \in WatcherIds |-> {}]

\* c.Lock() / c.RLock() can be taken
LockFree == lock = 0

\* ------------------------------------------------------------- update()
\* where a task continues when update() has returned
AfterUpdate(t) ==
  IF t \in Loops THEN "next" ELSE IF t = Loader THEN "idle" ELSE "glock"

\* update(), the snapshot of the registry under the read lock
UpdateSnapshot(t) ==
  /\ ~crashed
  /\ pc[t] = "snap"
  /\ LockFree
  /\ upd' = [upd EXCEPT ![t] = watchers]
  /\ pc' = [pc EXCEPT ![t] = IF watchers = {} THEN AfterUpdate(t) ELSE "send"]
  /\ UNCHANGED <<sources, sets, set, vals, lock, exit, idx, watchers, wt, lidx,
                 cs, call, rdok, ndeliv, crashed, closing, stopping>>

\* UpdateSend with a send that replaces the value pending in the channel
UpdateSendOverwrites(t, id) ==
  /\ ~crashed
  /\ pc[t] = "send"
  /\ id \in upd[t]
  /\ IF vals = NoDoc
       THEN /\ crashed' = TRUE
            /\ UNCHANGED <<wt, upd, pc>>
       ELSE /\ wt' = [wt EXCEPT ![id].updates = Lookup(vals, wt[id].path)]
            /\ upd' = [upd EXCEPT ![t] = @ \ {id}]
            /\ pc' = [pc EXCEPT ![t] = IF upd[t] = {id} THEN AfterUpdate(t) ELSE "send"]
            /\ UNCHANGED crashed
  /\ UNCHANGED <<sources, sets, set, vals, lock, exit, idx, watchers, lidx, cs,
                 call, rdok, ndeliv, closing, stopping>>

\* update(), one iteration of the delivery loop: c.vals is read without the
\* lock, a nil c.vals panics, a full channel drops the value
UpdateSend(t, id) ==
  /\ ~crashed
  /\ pc[t] = "send"
  /\ id \in upd[t]
  /\ IF vals = NoDoc
       THEN /\ crashed' = TRUE
            /\ UNCHANGED <<wt, upd, pc>>
       ELSE /\ wt' = [wt EXCEPT ![id].updates =
                        IF @ = NoUpdate THEN Lookup(vals, wt[id].path) ELSE @]
            /\ upd' = [upd EXCEPT ![t] = @ \ {id}]
            /\ pc' = [pc EXCEPT ![t] = IF upd[t] = {id} THEN AfterUpdate(t) ELSE "send"]
            /\ UNCHANGED crashed
  /\ UNCHANGED <<sources, sets, set, vals, lock, exit, idx, watchers, lidx, cs,
                 call, rdok, ndeliv, closing, stopping>>

\* ------------------------------------------------------ watch(idx, s)
\* c.sets = append(c.sets, nil), under the lock
WatchAppend(l) ==
  /\ ~crashed
  /\ pc[l] = "start"
  /\ LockFree
  /\ sets' = Append(sets, Nil)
  /\ pc' = [pc EXCEPT ![l] = "open"]
  /\ UNCHANGED <<sources, set, vals, lock, exit, idx, watchers, wt, upd, lidx,
                 cs, call, rdok, ndeliv, crashed, closing, stopping>>

\* s.Watch(): a stream handle, or an error and the loop sleeps
WatchOpen(l) ==
  /\ ~crashed
  /\ pc[l] = "open"
  /\ \E ok \in BOOLEAN :
       pc' = [pc EXCEPT ![l] = IF ok THEN "next" ELSE "backoff"]
  /\ UNCHANGED <<sources, sets, set, vals, lock, exit, idx, watchers, wt, upd,
                 lidx, cs, call, rdok, ndeliv, crashed, closing, stopping>>

\* time.Sleep(time.Second); continue
WatchBackoff(l) ==
  /\ ~crashed
  /\ pc[l] = "backoff"
  /\ pc' = [pc EXCEPT ![l] = "open"]
  /\ UNCHANGED <<sources, sets, set, vals, lock, exit, idx, watchers, wt, upd,
                 lidx, cs, call, rdok, ndeliv, crashed, closing, stopping>>

\* s.Next() returns a ChangeSet (after Close too, as long as the stop
\* goroutine has not called w.Stop() yet)
StreamDeliver(l) ==
  /\ ~crashed
  /\ pc[l] = "next"
  /\ ndeliv < MaxDeliveries
  /\ \E v \in 0..MaxVer :
       cs' = [cs EXCEPT ![l] = ChangeSet(l, v)]
  /\ ndeliv' = ndeliv + 1
  /\ pc' = [pc EXCEPT ![l] = "store"]
  /\ UNCHANGED <<sources, sets, set, vals, lock, exit, idx, watchers, wt, upd,
                 lidx, call, rdok, crashed, closing, stopping>>

\* s.Next() returns an error (the stream failed, or the stop goroutine called
\* w.Stop() after c.exit was closed): watch() returns it, the loop sleeps,
\* closes done and leaves if c.exit is closed
StreamError(l) ==
  /\ ~crashed
  /\ pc[l] = "next"
  /\ pc' = [pc EXCEPT ![l] = IF exit THEN "done" ELSE "open"]
  /\ UNCHANGED <<sources, sets, set, vals, lock, exit, idx, watchers, wt, upd,
                 lidx, cs, call, rdok, ndeliv, crashed, closing, stopping>>

\* c.Lock(); c.sets[idx] = cs  (an idx beyond the slice panics)
IngestStore(l) ==
  /\ ~crashed
  /\ pc[l] = "store"
  /\ LockFree
  /\ lock' = l
  /\ IF lidx[l] + 1 > Len(sets)
       THEN /\ crashed' = TRUE
            /\ UNCHANGED <<sets, pc>>
       ELSE /\ sets' = [sets EXCEPT ![lidx[l] + 1] = cs[l]]
            /\ pc' = [pc EXCEPT ![l] = "parse"]
            /\ UNCHANGED crashed
  /\ UNCHANGED <<sources, set, vals, exit, idx, watchers, wt, upd, lidx, cs,
                 call, rdok, ndeliv, closing, stopping>>

\* IngestParse with the Values of the failed Parse's nil set stored before
\* the error is looked at
IngestParseStoresFirst(l) ==
  /\ ~crashed
  /\ pc[l] = "parse"
  /\ IF Parse(sets).err
       THEN /\ pc' = [pc EXCEPT ![l] = "mergefail"]
            /\ vals' = NoDoc
       ELSE /\ vals' = Values(Parse(sets).data, rdok)
            /\ pc' = [pc EXCEPT ![l] = "commit"]
  /\ UNCHANGED <<sources, sets, set, lock, exit, idx, watchers, wt, upd, lidx,
                 cs, call, rdok, ndeliv, crashed, closing, stopping>>

\* set, err := Parse(c.sets...); on an error the func returns, the lock still
\* held; else c.vals, _ = Values(set)
IngestParse(l) ==
  /\ ~crashed
  /\ pc[l] = "parse"
  /\ IF Parse(sets).err
       THEN /\ pc' = [pc EXCEPT ![l] = "mergefail"]
            /\ UNCHANGED vals
       ELSE /\ vals' = Values(Parse(sets).data, rdok)
            /\ pc' = [pc EXCEPT ![l] = "commit"]
  /\ UNCHANGED <<sources, sets, set, lock, exit, idx, watchers, wt, upd, lidx,
                 cs, call, rdok, ndeliv, crashed, closing, stopping>>

\* IngestCommit without c.Unlock() before update()
IngestCommitKeepsLock(l) ==
  /\ ~crashed
  /\ pc[l] = "commit"
  /\ set' = Parse(sets).data
  /\ pc' = [pc EXCEPT ![l] = "snap"]
  /\ UNCHANGED <<sources, sets, vals, lock, exit, idx, watchers, wt, upd, lidx,
                 cs, call, rdok, ndeliv, crashed, closing, stopping>>

\* c.set = set; c.Unlock()
IngestCommit(l) ==
  /\ ~crashed
  /\ pc[l] = "commit"
  /\ set' = Parse(sets).data
  /\ lock' = 0
  /\ pc' = [pc EXCEPT ![l] = "snap"]
  /\ UNCHANGED <<sources, sets, vals, exit, idx, watchers, wt, upd, lidx, cs,
                 call, rdok, ndeliv, crashed, closing, stopping>>

\* after watch() returned the Parse error: sleep, close(done), and leave the
\* loop if c.exit is closed
WatchRetry(l) ==
  /\ ~crashed
  /\ pc[l] = "mergefail"
  /\ pc' = [pc EXCEPT ![l] = IF exit THEN "done" ELSE "open"]
  /\ UNCHANGED <<sources, sets, set, vals, lock, exit, idx, watchers, wt, upd,
                 lidx, cs, call, rdok, ndeliv, crashed, closing, stopping>>

\* ------------------------------------------------------ Get, Bytes, sync
\* the ChangeSets sync() collects: rd[i] is what sources[i].Read() returned,
\* -1 for an error, else the version read; failed reads are left out
RECURSIVE Collect(_, _, _)
Collect(srcs, rd, i) ==
  IF i > Len(srcs) THEN <<>>
  ELSE (IF rd[i] = -1 THEN <<>> ELSE <<ChangeSet(srcs[i], rd[i])>>)
       \o Collect(srcs, rd, i + 1)

\* what []byte{} is to a caller of Bytes
EmptyBuf == [k \in Keys |-> -2]
\* no Bytes result
NoBuf == [k \in Keys |-> -3]

\* a call is entered: loaded(), under the read lock, decides whether sync()
\* runs first
Enter(c, op, path) ==
  /\ ~crashed
  /\ pc[c] = "idle"
  /\ LockFree
  /\ call' = [call EXCEPT ![c] = [op |-> op, path |-> path, ret |-> NoUpdate,
                                  bytes |-> NoBuf]]
  /\ pc' = [pc EXCEPT ![c] = IF vals # NoDoc THEN "glock" ELSE "sync"]
  /\ UNCHANGED <<sources, sets, set, vals, lock, exit, idx, watchers, wt, upd,
                 lidx, cs, rdok, ndeliv, crashed, closing, stopping>>

\* Get(path...) is called
Get(c) == \E path \in Paths : Enter(c, "Get", path)

\* Bytes() is called
Bytes(c) == Enter(c, "Bytes", "b")

\* Watch(path...) is called: it starts with c.Get(path...)
Watch(c) ==
  /\ idx < MaxWatchers
  /\ \E path \in Paths : Enter(c, "Watch", path)

\* sync(): c.Lock(), Read every source, Parse what was read; a Parse error
\* returns with the lock held, else c.vals and c.set are stored and the lock
\* released
Sync(c) ==
  /\ ~crashed
  /\ pc[c] = "sync"
  /\ LockFree
  /\ \E rd \in [1..Len(sources) -> -1..MaxVer] :
       LET p == Parse(Collect(sources, rd, 1)) IN
         IF p.err
           THEN /\ lock' = c
                /\ pc' = [pc EXCEPT ![c] = "glock"]
                /\ UNCHANGED <<set, vals>>
           ELSE /\ vals' = Values(p.data, rdok)
                /\ set' = p.data
                /\ pc' = [pc EXCEPT ![c] = "snap"]
                /\ UNCHANGED lock
  /\ UNCHANGED <<sources, sets, exit, idx, watchers, wt, upd, lidx, cs, call,
                 rdok, ndeliv, crashed, closing, stopping>>

\* Get after sync: c.Lock(); defer c.Unlock(); the value at the path, with the
\* fallback over c.set and the synthetic {} when c.vals is nil.
GetVals ==
  IF vals # NoDoc THEN vals
  ELSE IF Values(set, rdok) # NoDoc THEN Values(set, rdok)
  ELSE Values(IF set = NoDoc THEN EmptyDoc ELSE set, rdok)

\* GetRead without c.Lock()
GetReadUnlocked(c) ==
  /\ ~crashed
  /\ pc[c] = "glock"
  /\ call[c].op \in {"Get", "Watch"}
  /\ vals' = GetVals
  /\ call' = [call EXCEPT ![c].ret =
                IF GetVals # NoDoc THEN Lookup(GetVals, call[c].path) ELSE NoValue]
  /\ pc' = [pc EXCEPT ![c] = IF call[c].op = "Watch" THEN "wreg" ELSE "ret"]
  /\ UNCHANGED <<sources, sets, set, lock, exit, idx, watchers, wt, upd, lidx,
                 cs, rdok, ndeliv, crashed, closing, stopping>>

GetRead(c) ==
  /\ ~crashed
  /\ pc[c] = "glock"
  /\ call[c].op \in {"Get", "Watch"}
  /\ LockFree
  /\ vals' = GetVals
  /\ call' = [call EXCEPT ![c].ret =
                IF GetVals # NoDoc THEN Lookup(GetVals, call[c].path) ELSE NoValue]
  /\ pc' = [pc EXCEPT ![c] = IF call[c].op = "Watch" THEN "wreg" ELSE "ret"]
  /\ UNCHANGED <<sources, sets, set, lock, exit, idx, watchers, wt, upd, lidx,
                 cs, rdok, ndeliv, crashed, closing, stopping>>

\* Bytes after sync: c.Lock(); defer c.Unlock()
BytesRead(c) ==
  /\ ~crashed
  /\ pc[c] = "glock"
  /\ call[c].op = "Bytes"
  /\ LockFree
  /\ call' = [call EXCEPT ![c].bytes = IF vals = NoDoc THEN EmptyBuf ELSE vals]
  /\ pc' = [pc EXCEPT ![c] = "ret"]
  /\ UNCHANGED <<sources, sets, set, vals, lock, exit, idx, watchers, wt, upd,
                 lidx, cs, rdok, ndeliv, crashed, closing, stopping>>

\* Get / Bytes hand their result to the caller
CallReturn(c) ==
  /\ ~crashed
  /\ pc[c] = "ret"
  /\ call' = [call EXCEPT ![c] = NoCall]
  /\ pc' = [pc EXCEPT ![c] = "idle"]
  /\ UNCHANGED <<sources, sets, set, vals, lock, exit, idx, watchers, wt, upd,
                 lidx, cs, rdok, ndeliv, crashed, closing, stopping>>

\* Watch after its Get: the watcher is made and registered under the lock
WatchRegister(c) ==
  /\ ~crashed
  /\ pc[c] = "wreg"
  /\ LockFree
  /\ wt' = [wt EXCEPT ![idx] = [path |-> call[c].path, value |-> call[c].ret,
                                updates |-> NoUpdate, exit |-> FALSE, out |-> "none",
                                seen |-> call[c].ret]]
  /\ watchers' = watchers \cup {idx}
  /\ idx' = idx + 1
  /\ call' = [call EXCEPT ![c] = NoCall]
  /\ pc' = [pc EXCEPT ![c] = "idle"]
  /\ UNCHANGED <<sources, sets, set, vals, lock, exit, upd, lidx, cs, rdok,
                 ndeliv, crashed, closing, stopping>>

\* ------------------------------------------------------------ Load, reload
\* Load(source): Read it (a failed Read leaves set nil), append the source
\* and its set under the lock, and start watch(len(c.sets) - 1, source)
LoadAppend ==
  /\ ~crashed
  /\ pc[Loader] = "idle"
  /\ Len(sources) < NumSources
  /\ LockFree
  /\ LET s == Len(sources) + 1 IN
       \E v \in -1..MaxVer :
         LET rd == IF v = -1 THEN Nil ELSE ChangeSet(s, v) IN
           /\ sources' = Append(sources, s)
           /\ sets' = Append(sets, rd)
           /\ lidx' = [lidx EXCEPT ![s] = Len(sets)]
           /\ cs' = [cs EXCEPT ![s] = rd]
           /\ pc' = [pc EXCEPT ![s] = "start", ![Loader] = "reload"]
  /\ UNCHANGED <<set, vals, lock, exit, idx, watchers, wt, upd, call, rdok,
                 ndeliv, crashed, closing, stopping>>

\* reload(): Parse(c.sets...) under the lock; an error unlocks and returns
Reload ==
  /\ ~crashed
  /\ pc[Loader] = "reload"
  /\ LockFree
  /\ IF Parse(sets).err
       THEN /\ pc' = [pc EXCEPT ![Loader] = "idle"]
            /\ UNCHANGED <<set, vals>>
       ELSE /\ vals' = Values(Parse(sets).data, rdok)
            /\ set' = Parse(sets).data
            /\ pc' = [pc EXCEPT ![Loader] = "snap"]
  /\ UNCHANGED <<sources, sets, lock, exit, idx, watchers, wt, upd, lidx, cs,
                 call, rdok, ndeliv, crashed, closing, stopping>>

\* ---------------------------------------------------------------- watcher
\* a consumer calls Next(); out tells a call made after Stop ("late") from
\* one made before ("waiting")
NextCall(id) ==
  /\ ~crashed
  /\ id < idx
  /\ wt[id].out \notin {"waiting", "late"}
  /\ wt' = [wt EXCEPT ![id].out = IF wt[id].exit THEN "late" ELSE "waiting"]
  /\ UNCHANGED <<sources, sets, set, vals, lock, exit, idx, watchers, pc, upd,
                 lidx, cs, call, rdok, ndeliv, crashed, closing, stopping>>

\* Next(), the case <-w.exit of the select
NextExit(id) ==
  /\ ~crashed
  /\ wt[id].out \in {"waiting", "late"}
  /\ wt[id].exit
  /\ wt' = [wt EXCEPT ![id].out = "stopped"]
  /\ UNCHANGED <<sources, sets, set, vals, lock, exit, idx, watchers, pc, upd,
                 lidx, cs, call, rdok, ndeliv, crashed, closing, stopping>>

\* NextUpdate without the bytes.Equal comparison
NextUpdateNoCompare(id) ==
  /\ ~crashed
  /\ wt[id].out \in {"waiting", "late"}
  /\ wt[id].updates # NoUpdate
  /\ wt' = [wt EXCEPT ![id] =
              [@ EXCEPT !.updates = NoUpdate, !.value = wt[id].updates,
                        !.out = "value", !.seen = wt[id].updates]]
  /\ UNCHANGED <<sources, sets, set, vals, lock, exit, idx, watchers, pc, upd,
                 lidx, cs, call, rdok, ndeliv, crashed, closing, stopping>>

\* Next(), the case v := <-w.updates of the select: a value equal to w.value
\* is skipped, another one is stored and returned
NextUpdate(id) ==
  /\ ~crashed
  /\ wt[id].out \in {"waiting", "late"}
  /\ wt[id].updates # NoUpdate
  /\ wt' = [wt EXCEPT ![id] =
              IF wt[id].updates = wt[id].value
                THEN [@ EXCEPT !.updates = NoUpdate]
                ELSE [@ EXCEPT !.updates = NoUpdate, !.value = wt[id].updates,
                               !.out = "value", !.seen = wt[id].updates]]
  /\ UNCHANGED <<sources, sets, set, vals, lock, exit, idx, watchers, pc, upd,
                 lidx, cs, call, rdok, ndeliv, crashed, closing, stopping>>

\* Stop() by a task that is alone in Stop() on this watcher: close(w.exit)
\* unless it is closed
Stop(id) ==
  /\ ~crashed
  /\ id < idx
  /\ ~wt[id].exit
  /\ wt' = [wt EXCEPT ![id].exit = TRUE]
  /\ UNCHANGED <<sources, sets, set, vals, lock, exit, idx, watchers, pc, upd,
                 lidx, cs, call, rdok, ndeliv, crashed, closing, stopping>>

\* Stop() by one of several tasks, its select: the case <-w.exit returns, the
\* default case goes on to close(w.exit)
StopCheck(k, id) ==
  /\ ~crashed
  /\ id < idx
  /\ k \notin stopping[id]
  /\ ~wt[id].exit
  /\ stopping' = [stopping EXCEPT ![id] = @ \cup {k}]
  /\ UNCHANGED <<sources, sets, set, vals, lock, exit, idx, watchers, wt, pc,
                 upd, lidx, cs, call, rdok, ndeliv, crashed, closing>>

\* Stop(), the default case: close(w.exit); closing a closed channel panics
StopChan(k, id) ==
  /\ ~crashed
  /\ k \in stopping[id]
  /\ stopping' = [stopping EXCEPT ![id] = @ \ {k}]
  /\ IF wt[id].exit
       THEN /\ crashed' = TRUE
            /\ UNCHANGED wt
       ELSE /\ wt' = [wt EXCEPT ![id].exit = TRUE]
            /\ UNCHANGED crashed
  /\ UNCHANGED <<sources, sets, set, vals, lock, exit, idx, watchers, pc, upd,
                 lidx, cs, call, rdok, ndeliv, closing>>

\* the goroutine of Watch: after <-w.exit, delete(c.watchers, id) under the lock
WatchRemove(id) ==
  /\ ~crashed
  /\ id \in watchers
  /\ wt[id].exit
  /\ LockFree
  /\ watchers' = watchers \ {id}
  /\ UNCHANGED <<sources, sets, set, vals, lock, exit, idx, wt, pc, upd, lidx,
                 cs, call, rdok, ndeliv, crashed, closing, stopping>>

\* ---------------------------------------------------------------- Close()
\* Close() by a task that is alone in Close(): close(c.exit) unless it is closed
Close ==
  /\ ~crashed
  /\ ~exit
  /\ exit' = TRUE
  /\ UNCHANGED <<sources, sets, set, vals, lock, idx, watchers, wt, pc, upd,
                 lidx, cs, call, rdok, ndeliv, crashed, closing, stopping>>

\* Close() by one of several tasks, its select: the case <-c.exit returns nil,
\* the default case goes on to close(c.exit)
CloseCheck(k) ==
  /\ ~crashed
  /\ k \notin closing
  /\ ~exit
  /\ closing' = closing \cup {k}
  /\ UNCHANGED <<sources, sets, set, vals, lock, exit, idx, watchers, wt, pc,
                 upd, lidx, cs, call, rdok, ndeliv, crashed, stopping>>

\* Close(), the default case: close(c.exit); closing a closed channel panics
CloseChan(k) ==
  /\ ~crashed
  /\ k \in closing
  /\ closing' = closing \ {k}
  /\ IF exit
       THEN /\ crashed' = TRUE
            /\ UNCHANGED exit
       ELSE /\ exit' = TRUE
            /\ UNCHANGED crashed
  /\ UNCHANGED <<sources, sets, set, vals, lock, idx, watchers, wt, pc, upd,
                 lidx, cs, call, rdok, ndeliv, stopping>>

Next ==
  \/ \E t \in Tasks : UpdateSnapshot(t)
  \/ \E t \in Tasks, id \in WatcherIds : UpdateSend(t, id)
  \/ \E l \in Loops : WatchAppend(l)
  \/ \E l \in Loops : WatchOpen(l)
  \/ \E l \in Loops : WatchBackoff(l)
  \/ \E l \in Loops : StreamDeliver(l)
  \/ \E l \in Loops : StreamError(l)
  \/ \E l \in Loops : IngestStore(l)
  \/ \E l \in Loops : IngestParse(l)
  \/ \E l \in Loops : IngestCommit(l)
  \/ \E l \in Loops : WatchRetry(l)
  \/ \E c \in Callers : Get(c)
  \/ \E c \in Callers : Bytes(c)
  \/ \E c \in Callers : Watch(c)
  \/ \E c \in Callers : Sync(c)
  \/ \E c \in Callers : GetRead(c)
  \/ \E c \in Callers : BytesRead(c)
  \/ \E c \in Callers : CallReturn(c)
  \/ \E c \in Callers : WatchRegister(c)
  \/ LoadAppend
  \/ Reload
  \/ \E id \in WatcherIds : NextCall(id)
  \/ \E id \in WatcherIds : NextExit(id)
  \/ \E id \in WatcherIds : NextUpdate(id)
  \/ \E id \in WatcherIds : Stop(id)
  \/ \E id \in WatcherIds : WatchRemove(id)
  \/ \E id \in WatcherIds, k \in Stoppers : StopCheck(k, id)
  \/ \E id \in WatcherIds, k \in Stoppers : StopChan(k, id)
  \/ Close
  \/ \E k \in Closers : CloseCheck(k)
  \/ \E k \in Closers : CloseChan(k)

Spec == Init /\ [][Next]_vars

\* The specifications below are the aggregator with the callers of one part of
\* its API each: the constructor's loops with Load (SpecIngest), with Get and
\* Bytes (SpecRead), and with Watch and the watchers' consumers (SpecWatch).

LoopStep(l) ==
  \/ WatchAppend(l) \/ WatchOpen(l) \/ WatchBackoff(l)
  \/ StreamDeliver(l) \/ StreamError(l) \/ IngestStore(l) \/ IngestParse(l)
  \/ IngestCommit(l) \/ WatchRetry(l) \/ UpdateSnapshot(l)

NextIngest ==
  \/ \E l \in Loops : LoopStep(l)
  \/ LoadAppend \/ Reload \/ UpdateSnapshot(Loader)
  \/ Close
SpecIngest == Init /\ [][NextIngest]_vars

\* the goroutines of the loops and the task inside Load keep being scheduled
FairIngest ==
  /\ SpecIngest
  /\ \A l \in Loops : WF_vars(LoopStep(l))
  /\ WF_vars(Reload \/ UpdateSnapshot(Loader))

NextRead ==
  \/ \E l \in Loops : LoopStep(l)
  \/ \E c \in Callers : Get(c) \/ Bytes(c) \/ Sync(c) \/ GetRead(c) \/ BytesRead(c)
                       \/ UpdateSnapshot(c) \/ CallReturn(c)
  \/ Close
SpecRead == Init /\ [][NextRead]_vars

WatcherStep(id) ==
  \/ NextCall(id) \/ NextExit(id) \/ NextUpdate(id) \/ Stop(id) \/ WatchRemove(id)

NextWatch ==
  \/ \E l \in Loops : LoopStep(l)
  \/ \E c \in Callers : Watch(c) \/ Sync(c) \/ GetRead(c) \/ UpdateSnapshot(c)
                       \/ WatchRegister(c)
  \/ \E t \in Tasks, id \in WatcherIds : UpdateSend(t, id)
  \/ \E id \in WatcherIds : WatcherStep(id)
  \/ Close
SpecWatch == Init /\ [][NextWatch]_vars

\* SpecWatch where the goroutines of the loops, the task inside Watch, a
\* consumer inside Next() and the removal goroutine of Watch keep being
\* scheduled; nothing obliges anyone to call Stop(), Close() or Next()
FairWatch ==
  /\ SpecWatch
  /\ \A l \in Loops : WF_vars(LoopStep(l) \/ \E id \in WatcherIds : UpdateSend(l, id))
  /\ \A c \in Callers :
       WF_vars(Sync(c) \/ GetRead(c) \/ UpdateSnapshot(c) \/ WatchRegister(c)
               \/ \E id \in WatcherIds : UpdateSend(c, id))
  /\ \A id \in WatcherIds :
       /\ WF_vars(NextExit(id) \/ NextUpdate(id))
       /\ WF_vars(WatchRemove(id))

\* the ingestion loops with several tasks that call Close()
NextShutdown ==
  \/ \E l \in Loops : LoopStep(l)
  \/ \E k \in Closers : CloseCheck(k) \/ CloseChan(k)
SpecShutdown == Init /\ [][NextShutdown]_vars

\* the ingestion loops with Watch, the watcher's consumer and several tasks
\* that call Stop() on the watcher
StopStep(id) ==
  \/ NextCall(id) \/ NextExit(id) \/ NextUpdate(id) \/ WatchRemove(id)
  \/ \E k \in Stoppers : StopCheck(k, id) \/ StopChan(k, id)

NextStop ==
  \/ \E l \in Loops : LoopStep(l)
  \/ \E c \in Callers : Watch(c) \/ Sync(c) \/ GetRead(c) \/ UpdateSnapshot(c)
                       \/ WatchRegister(c)
  \/ \E t \in Tasks, id \in WatcherIds : UpdateSend(t, id)
  \/ \E id \in WatcherIds : StopStep(id)
SpecStop == Init /\ [][NextStop]_vars

\* the goroutines of the loops, the task inside Watch, a consumer inside
\* Next(), the tasks inside Stop() and the removal goroutine of Watch keep
\* being scheduled
FairStop ==
  /\ SpecStop
  /\ \A l \in Loops : WF_vars(LoopStep(l) \/ \E id \in WatcherIds : UpdateSend(l, id))
  /\ \A c \in Callers :
       WF_vars(Sync(c) \/ GetRead(c) \/ UpdateSnapshot(c) \/ WatchRegister(c)
               \/ \E id \in WatcherIds : UpdateSend(c, id))
  /\ \A id \in WatcherIds :
       /\ WF_vars(NextExit(id) \/ NextUpdate(id))
       /\ WF_vars(WatchRemove(id))
       /\ WF_vars(\E k \in Stoppers : StopChan(k, id))

\* ------------------------------------------------------------------ claims
\* C1: every Get or Bytes call made before the first successful merge returns
\* to its caller, also when the bootstrap merge inside sync fails: no such
\* call is left waiting at its c.Lock() for a lock that the calling task holds
\* itself (sync has returned, nothing will release it), which blocks this
\* call and every later one forever.
C1_ColdReadReturns ==
  \A c \in Callers : pc[c] = "glock" => lock # c

C3_MergeFailureDropsDelivery ==
  \A l \in Loops :
    pc[l] = "mergefail" => (lock # l /\ sets[lidx[l] + 1] # cs[l])

\* no task is between obtaining a ChangeSet and the end of the merge over it
Settled ==
  /\ ~crashed
  /\ lock = 0
  /\ \A l \in Loops : pc[l] \notin {"store", "parse", "commit", "mergefail"}
  /\ pc[Loader] # "reload"

\* the sources that have produced a ChangeSet (by a stream delivery or the
\* Read of Load) whose document defines key k
Providers(k) == {s \in Loops : cs[s] # Nil /\ k \in KeysOf(s)}

\* C4: after constructions, stream deliveries and Load calls whose merges all
\* succeeded, every key that the latest ChangeSet of some source defines has,
\* in the merged document Get reads, the value of the source with the highest
\* index in the source list among those that define it.
C4_PriorityOverride ==
  (Settled /\ vals # NoDoc /\ \A s \in Loops : ~Malformed(cs[s])) =>
    \A k \in Keys :
      Providers(k) # {} =>
        Lookup(vals, k) = ValOf(Max(Providers(k)), cs[Max(Providers(k))].ver)

\* C5: whenever the exclusive lock is not held and a merged Set exists, the
\* merged Set is the Merge Engine applied to the current slot array, and the
\* Value tree is the one built from it.
C5_SetIsMergeOfSlots ==
  (lock = 0 /\ set # NoDoc) =>
    (~Parse(sets).err /\ set = Parse(sets).data /\ vals = Values(set, rdok))

\* Load returns: reload() is over
LoadReturns == pc[Loader] # "idle" /\ pc'[Loader] = "idle"

\* the source the last Load call added
Loaded == sources[Len(sources)]

\* C6: when Load(C) returns, C's Read having succeeded, all slots decodable
\* and no delivery of C's stream in progress, Get at the path C defines
\* returns C's value, whatever the ingestion loops did in between.
C6_DynamicLoad ==
  [][(/\ LoadReturns
      /\ cs[Loaded] # Nil /\ ~Malformed(cs[Loaded]) /\ ~Parse(sets).err /\ rdok
      /\ ~crashed /\ lock = 0
      /\ pc[Loaded] \notin {"store", "parse", "commit", "mergefail"})
     => Lookup(vals', "d") = ValOf(Loaded, cs[Loaded].ver)]_vars

\* C7: once Stop() has returned, every Next() call made afterwards returns
\* the WatcherStopped error and never a value, also when an update is pending
\* in the watcher's buffer.
C7_StopTerminal ==
  [][\A id \in WatcherIds :
       wt[id].out = "late" => wt'[id].out \in {"late", "stopped"}]_vars

\* C8: a value returned by Next() is never equal to the value the watcher
\* surfaced last, the previous value Next returned or else the baseline that
\* Watch captured.
C8_Dedup ==
  [][\A id \in WatcherIds :
       (wt[id].out \in {"waiting", "late"} /\ wt'[id].out = "value") =>
         wt'[id].seen # wt[id].seen]_vars

\* C8, its case: an update equal to the value surfaced last is pending for a
\* consumer that is in Next
C8_Witness ==
  \E id \in WatcherIds :
    /\ id < idx /\ wt[id].out = "waiting"
    /\ wt[id].seen # NoValue /\ wt[id].updates = wt[id].seen

\* a merge over c.sets is under way in an ingestion loop
MergeInProgress == \E l \in Loops : pc[l] \in {"parse", "commit"}

\* C9: a Get that runs concurrently with the ingestion loops returns a value
\* of one complete merged document: when it reads, no merge is half-way, and
\* what it returns is the value at its path of the Value tree of the merged
\* Set of one committed merge.
C9_AtomicMergeVisibility ==
  [][\A c \in Callers :
       (pc[c] = "glock" /\ pc'[c] = "ret" /\ call[c].op = "Get") =>
         /\ ~MergeInProgress
         /\ call'[c].ret = IF Values(set, rdok) # NoDoc
                              THEN Lookup(set, call[c].path)
                              ELSE NoValue]_vars

\* C9, its case: a Get returned a value of a committed merge while another
\* delivery waits for the lock
C9_Witness ==
  \E c \in Callers, l \in Loops :
    /\ pc[c] = "ret" /\ call[c].op = "Get" /\ call[c].ret > 0
    /\ pc[l] = "store" /\ ndeliv > 1

\* C10: after Close() every ingestion loop that was started terminates (a
\* crash of the process ends them too), whatever the source does.
C10_CloseEndsLoops ==
  \A l \in Loops : (exit /\ pc[l] # "off") ~> (pc[l] = "done" \/ crashed)

\* C11: however many Close() calls are made, also by several tasks at the same
\* time, c.exit is closed once: every close(c.exit) that a call executes finds
\* the channel open, so that no call panics.
C11_CloseOnce ==
  [][\A k \in Closers : (k \in closing /\ k \notin closing') => ~exit]_vars

\* C12: however many Stop() calls are made on a watcher, also while its
\* consumer is in Next(), w.exit is closed once (every close(w.exit) that a
\* call executes finds the channel open, so that no call panics), and the
\* entry of a stopped watcher leaves the registry.
C12_StopIdempotent ==
  /\ [][\A id \in WatcherIds, k \in Stoppers :
          (k \in stopping[id] /\ k \notin stopping'[id]) => ~wt[id].exit]_vars
  /\ \A id \in WatcherIds : wt[id].exit ~> (id \notin watchers \/ crashed)

\* C13: whatever the sources and the reader do and however the ingestion
\* loops interleave with Watch and the fan-out, the process does not panic:
\* no write to a slot index outside c.sets, no use of a nil c.vals in update().
C13_NoCrash == ~crashed

\* C14: once the aggregator is closed, a Next() call on any of its watchers,
\* blocked before Close() or made after it, does not stay blocked: it returns
\* the WatcherStopped error (or the update that was pending), also when
\* Stop() is never called on the watcher. The property is stated for the
\* states in which every ingestion loop has ended and no Watch call is under
\* way, where nothing is left that could send to the watcher.
C14_CloseStopsWatchers ==
  \A id \in WatcherIds :
    (/\ exit /\ wt[id].out \in {"waiting", "late"}
     /\ \A l \in Loops : pc[l] \in {"off", "done"}
     /\ \A c \in Callers : pc[c] = "idle")
      ~> (wt[id].out \in {"stopped", "value"} \/ crashed)

\* C15: whenever no task is inside a locked section and every loop that was
\* started has made its slot, c.sets is as long as c.sources and slot i holds
\* nothing or a ChangeSet of source i, for every scheduling of the loops and
\* every interleaving with Load.
C15_SlotsAligned ==
  (/\ ~crashed
   /\ lock = 0
   /\ \A l \in 1..Len(sources) : pc[l] # "start")
  => /\ Len(sets) = Len(sources)
     /\ \A i \in 1..Len(sets) :
          sets[i] # Nil => (i <= Len(sources) /\ sets[i].src = sources[i])

\* C16: a task that is in update(), taking the snapshot of the registry or
\* sending to the watchers of the snapshot, does not hold the lock: the
\* streamed merge and the cold-start sync have released it before update().
C16_FanoutOutsideLock ==
  \A t \in Tasks : pc[t] \in {"snap", "send"} => lock # t

\* C16, its case: a task is sending to a watcher while another task holds the
\* exclusive lock
C16_Witness ==
  \E t \in Tasks : pc[t] = "send" /\ upd[t] # {} /\ lock \notin {0, t}

\* C17: a send of the fan-out to a watcher whose buffer is occupied is always
\* possible (it does not wait for the consumer), leaves the pending value as
\* it is, and the task goes on to the remaining watchers of its snapshot.
C17_DropOnFull ==
  /\ [](\A t \in Tasks, id \in WatcherIds :
          (~crashed /\ pc[t] = "send" /\ id \in upd[t]) => ENABLED UpdateSend(t, id))
  /\ [][\A t \in Tasks, id \in WatcherIds :
          (/\ pc[t] = "send" /\ id \in upd[t] /\ id \notin upd'[t]
           /\ wt[id].updates # NoUpdate)
          => /\ wt'[id].updates = wt[id].updates
             /\ ~crashed'
             /\ pc'[t] = IF upd[t] = {id} THEN AfterUpdate(t) ELSE "send"]_vars

\* C17, its case: every fan-out is over, and what is pending for a registered
\* watcher is not the value of the current c.vals at its path: the send of
\* the last merge found the buffer occupied and was dropped
C17_Witness ==
  \E id \in watchers :
    /\ ~crashed /\ lock = 0 /\ vals # NoDoc
    /\ wt[id].updates # NoUpdate
    /\ wt[id].updates # Lookup(vals, wt[id].path)
    /\ \A t \in Tasks : pc[t] \notin {"parse", "commit", "snap", "send", "sync"}

\* C18: the shared state is read under the lock only; in particular a send of
\* the fan-out, which reads c.vals, does not happen while another task holds
\* the exclusive lock (and may be half-way through a merge).
C18_LockDiscipline ==
  [][\A t \in Tasks, id \in WatcherIds :
       (pc[t] = "send" /\ id \in upd[t] /\ id \notin upd'[t]) => lock = 0]_vars

\* the sources of the source list whose documents define key k
ProvidersOf(k) == {sources[i] : i \in {j \in 1..Len(sources) : k \in KeysOf(sources[j])}}

\* C19: a successful merge of a stream delivery of source l leaves every key
\* that is in the merged document Get reads, and that one other source alone
\* provides, in the merged document with the value it had.
C19_DeliveryKeepsOthers ==
  [][\A l \in Loops :
       (pc[l] = "parse" /\ pc'[l] = "commit" /\ vals # NoDoc /\ vals' # NoDoc) =>
         \A k \in Keys :
           (/\ Lookup(vals, k) # NoValue
            /\ \E s \in Loops \ {l} : ProvidersOf(k) = {s})
           => Lookup(vals', k) = Lookup(vals, k)]_vars

\* no merge and no fan-out is under way
Quiet ==
  /\ ~crashed
  /\ lock = 0
  /\ \A t \in Tasks : pc[t] \notin {"store", "parse", "commit", "snap", "send", "sync"}

\* C20: a watcher Watch has returned, whose consumer has not called Next()
\* yet, has been offered every merge committed since its baseline was read:
\* once merges and fan-outs are over, either an update is pending in its
\* buffer or its baseline is the current value at its path.
C20_WatchLosesNoMerge ==
  \A id \in watchers :
    (/\ Quiet /\ vals # NoDoc
     /\ wt[id].out = "none" /\ ~wt[id].exit
     /\ wt[id].updates = NoUpdate)
    => wt[id].value = Lookup(vals, wt[id].path)
====
